---------------------------- MODULE Spec2Model ----------------------------
(***************************************************************************)
(* Model of the checkdigit crate: util::CharMap (src/util/charmap.rs), the *)
(* split/append helpers (src/util.rs) and the reference Luhn algorithm     *)
(* (src/algo/ref_luhn.rs).                                                 *)
(*                                                                         *)
(* A Rust char is its Unicode code point; a str/String is the sequence of  *)
(* its characters, each taking len_utf8 bytes where the code counts bytes. *)
(* A call's outcome is a record: Ok(v),                                    *)
(* Err(variant, string) for the crate's Error enum, or Panic(message).     *)
(* Integer overflow depends on the build profile (overflow checks panic,   *)
(* otherwise the value wraps); the profile is the variable overflow_checks,*)
(* chosen when the program is built and never changed.                     *)
(***************************************************************************)
EXTENDS Integers, Sequences, FiniteSets, TLC

VARIABLES
    overflow_checks,  \* build profile: TRUE = overflow checks on (debug)
    algo,             \* the RefLuhn instance: [lossy, charmap]
    cm,               \* the CharMap under construction/use in the map operations
    op,               \* the operation called last
    text,             \* its string argument
    count,            \* its usize argument (split_protected_tail_n's n)
    nums,             \* its numeric-sequence argument (numset / ns)
    result            \* what the call returned

vars == <<overflow_checks, algo, cm, op, text, count, nums, result>>

----------------------------------------------------------------------------
(* Bounds of the model *)

\* longest enumerated input string, in characters
MaxLen == 3
\* largest tail length handed to split_protected_tail_n
MaxTail == 3
\* longest charset / numset / value sequence enumerated for the map operations
MaxSet == 3

(* Widths of the integer types *)

\* number of values of u8
U8Modulus == 256
\* the value usize wraps to below zero; stands for usize::MAX, of which the
\* code only uses that it exceeds every string length
UsizeMax == 2147483647

----------------------------------------------------------------------------
(* Outcomes *)

Ok(v) == [kind |-> "Ok", val |-> v]
Err(variant, s) == [kind |-> "Err", err |-> variant, str |-> s]
Panic(why) == [kind |-> "Panic", why |-> why]

IsOk(r) == r.kind = "Ok"
IsErr(r) == r.kind = "Err"
IsPanic(r) == r.kind = "Panic"

----------------------------------------------------------------------------
(* Strings *)

\* char::len_utf8: the number of bytes of a character in a str
len_utf8(c) ==
    IF c < 128 THEN 1 ELSE IF c < 2048 THEN 2 ELSE IF c < 65536 THEN 3 ELSE 4

\* str::len: the number of bytes of s
RECURSIVE ByteLen(_)
ByteLen(s) == IF s = <<>> THEN 0 ELSE len_utf8(Head(s)) + ByteLen(Tail(s))

\* str::char_indices: <<byte offset, char>> of every character, in order
CharIndices(s) == [i \in 1..Len(s) |-> <<ByteLen(SubSeq(s, 1, i - 1)), s[i]>>]

\* str::split_at(mid): the characters before and from byte offset mid; a mid
\* inside a character panics
SplitAt(s, mid) ==
    LET ci == CharIndices(s)
        before(i) == ci[i][1] < mid
        k == Cardinality({i \in 1..Len(s) : before(i)})
    IN  IF mid = ByteLen(SubSeq(s, 1, k))
        THEN Ok(<<SubSeq(s, 1, k), SubSeq(s, k + 1, Len(s))>>)
        ELSE Panic("byte index is not a char boundary")

----------------------------------------------------------------------------
(* Machine integers *)

\* u8 arithmetic: the wrapped value and whether the exact value left 0..255
U8(x) == [val |-> x % U8Modulus, ovf |-> x < 0 \/ x >= U8Modulus]

\* usize subtraction a - b
UsizeSub(a, b) ==
    IF a >= b THEN [val |-> a - b, ovf |-> FALSE]
    ELSE [val |-> UsizeMax - (b - a) + 1, ovf |-> TRUE]


----------------------------------------------------------------------------
(* util::CharMap<u8> *)

\* the smaller of two lengths: where Iterator::zip stops
Min(a, b) == IF a <= b THEN a ELSE b

\* collect::<FnvHashMap<_, _>>() of the pairs (keys[i], vals[i]), i = 1..m:
\* a later pair replaces an earlier one with the same key
CollectMap(keys, vals, m) ==
    [k \in {keys[i] : i \in 1..m} |->
        vals[CHOOSE i \in 1..m :
                /\ keys[i] = k
                /\ \A j \in (i + 1)..m : keys[j] # k]]

\* HashMap::len
MapLen(f) == Cardinality(DOMAIN f)

\* with_numset without the third assertion (numset uniqueness)
with_numset_unchecked_nums(charset, numset) ==
    LET cs == charset
        m == Min(Len(cs), Len(numset))
        instance == [c_to_n |-> CollectMap(cs, numset, m),
                     n_to_c |-> CollectMap(numset, cs, m)]
        charset_size == Len(cs)
    IN  IF Len(numset) # charset_size
        THEN Panic("charset and numset must have the same length")
        ELSE IF MapLen(instance.c_to_n) # charset_size
        THEN Panic("every character in charset string must be unique")
        ELSE Ok(instance)

\* CharMap::with_numset
with_numset(charset, numset) ==
    LET cs == charset
        m == Min(Len(cs), Len(numset))
        instance == [c_to_n |-> CollectMap(cs, numset, m),
                     n_to_c |-> CollectMap(numset, cs, m)]
        charset_size == Len(cs)
    IN  IF Len(numset) # charset_size
        THEN Panic("charset and numset must have the same length")
        ELSE IF MapLen(instance.c_to_n) # charset_size
        THEN Panic("every character in charset string must be unique")
        ELSE IF MapLen(instance.n_to_c) # charset_size
        THEN Panic("every element in numset list must be unique")
        ELSE Ok(instance)

\* <CharMap<u8> as From<&str>>::from.  (0..).take(n) calls RangeFrom<u8>::next
\* n times; the call that yields 255 steps the range past u8::MAX, which
\* panics under overflow checks and wraps to 0 otherwise.
from(charset, checks) ==
    LET n == Len(charset)
    IN  IF checks /\ n >= U8Modulus
        THEN Panic("attempt to add with overflow")
        ELSE with_numset(charset, [i \in 1..n |-> (i - 1) % U8Modulus])

\* the first character of cs that the map does not know (0 when all are known)
FirstUnknown(m, cs) ==
    IF \A i \in 1..Len(cs) : cs[i] \in DOMAIN m.c_to_n THEN 0
    ELSE CHOOSE i \in 1..Len(cs) :
            /\ cs[i] \notin DOMAIN m.c_to_n
            /\ \A j \in 1..(i - 1) : cs[j] \in DOMAIN m.c_to_n

\* CharMap::convert_chars
convert_chars(m, s) ==
    LET cs == s
        bad == FirstUnknown(m, cs)
    IN  IF bad # 0
        THEN Err("UnknownCharInString", <<cs[bad]>>)
        ELSE Ok([i \in 1..Len(cs) |-> m.c_to_n[cs[i]]])

\* convert_chars_lossy that stops at the first unknown character
convert_chars_lossy_prefix(m, s) ==
    LET cs == s
        bad == FirstUnknown(m, cs)
        known == IF bad = 0 THEN cs ELSE SubSeq(cs, 1, bad - 1)
    IN  [i \in 1..Len(known) |-> m.c_to_n[known[i]]]

\* CharMap::convert_chars_lossy
convert_chars_lossy(m, s) ==
    LET known(c) == c \in DOMAIN m.c_to_n
        kept == SelectSeq(s, known)
    IN  [i \in 1..Len(kept) |-> m.c_to_n[kept[i]]]

\* CharMap::convert_nums: indexing n_to_c with an unknown value panics
convert_nums(m, ns) ==
    IF \E i \in 1..Len(ns) : ns[i] \notin DOMAIN m.n_to_c
    THEN Panic("no entry found for key")
    ELSE Ok([i \in 1..Len(ns) |-> m.n_to_c[ns[i]]])

----------------------------------------------------------------------------
(* util: split and append *)

\* DoubleEndedIterator::nth_back(k) of char_indices: the (k+1)th item from the
\* end, <<>> for None
NthBack(ci, k) == IF k < Len(ci) THEN <<ci[Len(ci) - k]>> ELSE <<>>

\* nth_back(n) in place of nth_back(n - 1)
split_protected_tail_n_off_by_one(protected, n, checks) ==
    LET found == NthBack(CharIndices(protected), n)
    IN  IF found # <<>>
        THEN SplitAt(protected, found[1][1])
        ELSE Err("InvalidProtectedString", protected)

\* the split taken n bytes, not n characters, before the end
split_protected_tail_n_bytes(protected, n, checks) ==
    IF n <= ByteLen(protected)
    THEN SplitAt(protected, ByteLen(protected) - n)
    ELSE Err("InvalidProtectedString", protected)

\* util::split_protected_tail_n
split_protected_tail_n(protected, n, checks) ==
    LET k == UsizeSub(n, 1)
        found == NthBack(CharIndices(protected), k.val)
    IN  IF k.ovf /\ checks
        THEN Panic("attempt to subtract with overflow")
        ELSE IF found # <<>>
        THEN SplitAt(protected, found[1][1])
        ELSE Err("InvalidProtectedString", protected)

\* check_chars pushed before unprotected
build_protected_prepend(unprotected, check_chars) == Ok(check_chars \o unprotected)

\* util::build_protected_apend
build_protected_apend(unprotected, check_chars) == Ok(unprotected \o check_chars)

----------------------------------------------------------------------------
(* algo::ref_luhn *)

\* const CHARSET: "0123456789"
CHARSET == <<48, 49, 50, 51, 52, 53, 54, 55, 56, 57>>

\* is_even testing the wrong parity
is_odd(n) == n % 2 = 1

\* is_even: n & 1 == 0
is_even(n) == n % 2 = 0

\* luhn_double without the digit-sum correction
luhn_double_plain(n) == U8(n * 2)

\* luhn_double: n * 2 - if n < 5 { 0 } else { 9 }, in u8
luhn_double(n) ==
    LET twice == U8(n * 2)
        less == U8(twice.val - (IF n < 5 THEN 0 ELSE 9))
    IN  [val |-> less.val, ovf |-> twice.ovf \/ less.ovf]

\* the fold without rev(): indices counted from the leftmost digit
RECURSIVE luhn_fold_forward(_, _, _)
luhn_fold_forward(ns, i, acc) ==
    IF i >= Len(ns) THEN acc
    ELSE LET n == ns[i + 1]
             term == IF i % 2 = 0
                     THEN U8(U8(n * 2).val - (IF n < 5 THEN 0 ELSE 9))
                     ELSE U8(n)
             sum == U8(acc.val + term.val)
         IN  luhn_fold_forward(ns, i + 1,
                               [val |-> sum.val % 10, ovf |-> acc.ovf \/ term.ovf \/ sum.ovf])

\* the fold of compute over ns.iter().rev().enumerate(), from index i with
\* accumulator acc: (acc + if is_even(i) { luhn_double(n) } else { n }) % 10
RECURSIVE luhn_fold(_, _, _)
luhn_fold(ns, i, acc) ==
    IF i >= Len(ns) THEN acc
    ELSE LET n == ns[Len(ns) - i]
             term == IF is_even(i) THEN luhn_double(n) ELSE [val |-> n, ovf |-> FALSE]
             sum == U8(acc.val + term.val)
         IN  luhn_fold(ns, i + 1,
                       [val |-> sum.val % 10, ovf |-> acc.ovf \/ term.ovf \/ sum.ovf])

\* the check value without the final reduction
check_value_unreduced(sum) == U8(10 - sum)

\* the value compute encodes: (10 - sum) % 10, in u8
check_value(sum) ==
    LET diff == U8(10 - sum) IN [val |-> diff.val % 10, ovf |-> diff.ovf]

\* RefLuhn::compute
compute(self, unprotected, checks) ==
    LET ns == IF self.lossy
              THEN Ok(convert_chars_lossy(self.charmap, unprotected))
              ELSE convert_chars(self.charmap, unprotected)
    IN  IF ~IsOk(ns) THEN ns
        ELSE LET sum == luhn_fold(ns.val, 0, [val |-> 0, ovf |-> FALSE])
                 chk == check_value(sum.val)
             IN  IF checks /\ (sum.ovf \/ chk.ovf)
                 THEN Panic("arithmetic overflow")
                 ELSE convert_nums(self.charmap, <<chk.val>>)

\* RefLuhn::validate
validate(self, protected, checks) ==
    LET parts == split_protected_tail_n(protected, 1, checks)
    IN  IF ~IsOk(parts) THEN parts
        ELSE LET computed == compute(self, parts.val[1], checks)
             IN  IF ~IsOk(computed) THEN computed
                 ELSE Ok(parts.val[2] = computed.val)

\* RefLuhn::generate
generate(self, unprotected, checks) ==
    LET computed == compute(self, unprotected, checks)
    IN  IF ~IsOk(computed) THEN computed
        ELSE build_protected_apend(unprotected, computed.val)

\* RefLuhn { lossy, charmap: CharMap::from(CHARSET) }; Default sets lossy = true
RefLuhn(lossy, checks) == [lossy |-> lossy, charmap |-> from(CHARSET, checks).val]

----------------------------------------------------------------------------
(* Inputs *)

\* the characters input strings are made of: the ten digits, '-' and the
\* two-byte character U+00E9
Alphabet == {48, 49, 50, 51, 52, 53, 54, 55, 56, 57} \cup {45, 233}

\* the string of the decimal digits ds
Digits(ds) == [i \in 1..Len(ds) |-> 48 + ds[i]]

\* the strings of the tests and of the documentation
Fixtures ==
    { Digits(<<7, 9, 9, 2, 7, 3, 9, 8, 7, 1>>),
      Digits(<<7, 9, 9, 2, 7, 3, 9, 8, 7, 1, 3>>),
      Digits(<<7, 9, 9, 2, 7, 3, 9, 8, 7, 1, 0>>),
      Digits(<<4, 4, 1, 7, 1, 2, 3, 4, 5, 6, 7, 8, 9, 1, 1, 2>>),
      Digits(<<4, 4, 1, 7, 1, 2, 3, 4, 5, 6, 7, 8, 9, 1, 1>>) }

CharSeqs(alphabet, n) == UNION {[1..k -> alphabet] : k \in 0..n}

Inputs == CharSeqs(Alphabet, MaxLen) \cup Fixtures

----------------------------------------------------------------------------
(* The program: calls on one RefLuhn instance *)

\* The build fixes overflow_checks.  ref_luhn() constructs the instance with
\* lossy = true; the strict instance (lossy = false) is the other value of the
\* field that compute branches on.
Init ==
    /\ overflow_checks \in BOOLEAN
    /\ algo \in {RefLuhn(lossy, overflow_checks) : lossy \in BOOLEAN}
    /\ cm = [c_to_n |-> <<>>, n_to_c |-> <<>>]  \* CharMap::default()
    /\ op = "none"
    /\ text = <<>>
    /\ count = 0
    /\ nums = <<>>
    /\ result = Ok(<<>>)

\* the caller is between calls
Idle == op = "none"

Compute ==
    /\ Idle
    /\ \E s \in Inputs :
        /\ op' = "compute"
        /\ text' = s
        /\ result' = compute(algo, s, overflow_checks)
        /\ UNCHANGED <<overflow_checks, algo, cm, count, nums>>

Generate ==
    /\ Idle
    /\ \E s \in Inputs :
        /\ op' = "generate"
        /\ text' = s
        /\ result' = generate(algo, s, overflow_checks)
        /\ UNCHANGED <<overflow_checks, algo, cm, count, nums>>

Validate ==
    /\ Idle
    /\ \E s \in Inputs :
        /\ op' = "validate"
        /\ text' = s
        /\ result' = validate(algo, s, overflow_checks)
        /\ UNCHANGED <<overflow_checks, algo, cm, count, nums>>

SplitProtectedTailN ==
    /\ Idle
    /\ \E s \in Inputs, n \in 0..MaxTail :
        /\ op' = "split_protected_tail_n"
        /\ text' = s
        /\ count' = n
        /\ result' = split_protected_tail_n(s, n, overflow_checks)
        /\ UNCHANGED <<overflow_checks, algo, cm, nums>>

\* the caller drops the result and the arguments; the next call can follow
Return ==
    /\ ~Idle
    /\ op' = "none"
    /\ text' = <<>>
    /\ count' = 0
    /\ nums' = <<>>
    /\ result' = Ok(<<>>)
    /\ UNCHANGED <<overflow_checks, algo, cm>>

Next == Compute \/ Generate \/ Validate \/ SplitProtectedTailN \/ Return

Spec == Init /\ [][Next]_vars

----------------------------------------------------------------------------
(* The program: one CharMap<u8> built, then used *)

\* the characters of the enumerated charsets and strings: 'A', 'B', U+00E9
MapAlphabet == {65, 66, 233}

\* the values of the enumerated numsets
MapValues == {0, 1, 7}

Charsets == CharSeqs(MapAlphabet, MaxSet)

Numsets == CharSeqs(MapValues, MaxSet)

\* charsets of distinct characters around the number of values of u8
LongCharsets ==
    {[i \in 1..k |-> 31 + i] : k \in {U8Modulus - 1, U8Modulus, U8Modulus + 1}}

\* CharMap::default(), the value cm holds until a constructor returns
EmptyMap == [c_to_n |-> <<>>, n_to_c |-> <<>>]

\* a constructor that panics returns no map
Built(r, old) == IF IsOk(r) THEN r.val ELSE old

WithNumset ==
    /\ Idle
    /\ cm = EmptyMap
    /\ \E charset \in Charsets, numset \in Numsets :
        /\ op' = "with_numset"
        /\ text' = charset
        /\ nums' = numset
        /\ result' = with_numset(charset, numset)
        /\ cm' = Built(with_numset(charset, numset), cm)
        /\ UNCHANGED <<overflow_checks, algo, count>>

From ==
    /\ Idle
    /\ cm = EmptyMap
    /\ \E charset \in Charsets \cup LongCharsets :
        /\ op' = "from"
        /\ text' = charset
        /\ result' = from(charset, overflow_checks)
        /\ cm' = Built(from(charset, overflow_checks), cm)
        /\ UNCHANGED <<overflow_checks, algo, count, nums>>

ConvertChars ==
    /\ Idle
    /\ \E s \in Charsets :
        /\ op' = "convert_chars"
        /\ text' = s
        /\ result' = convert_chars(cm, s)
        /\ UNCHANGED <<overflow_checks, algo, cm, count, nums>>

ConvertCharsLossy ==
    /\ Idle
    /\ \E s \in Charsets :
        /\ op' = "convert_chars_lossy"
        /\ text' = s
        /\ result' = Ok(convert_chars_lossy(cm, s))
        /\ UNCHANGED <<overflow_checks, algo, cm, count, nums>>

ConvertNums ==
    /\ Idle
    /\ \E ns \in Numsets :
        /\ op' = "convert_nums"
        /\ nums' = ns
        /\ result' = convert_nums(cm, ns)
        /\ UNCHANGED <<overflow_checks, algo, cm, count, text>>

NextMap ==
    WithNumset \/ From \/ ConvertChars \/ ConvertCharsLossy \/ ConvertNums \/ Return

SpecMap == Init /\ [][NextMap]_vars

----------------------------------------------------------------------------
(* Vocabulary of the properties *)

\* the fold's starting accumulator
Zero == [val |-> 0, ovf |-> FALSE]

\* s is made of the characters '0'..'9' only
IsDigitString(s) == \A i \in 1..Len(s) : s[i] \in 48..57

\* the decimal values of a digit string
DigitValues(s) == [i \in 1..Len(s) |-> s[i] - 48]

\* s with every character outside '0'..'9' removed
Clean(s) == LET digit(c) == c \in 48..57 IN SelectSeq(s, digit)

\* the last character of s is one of '0'..'9'
EndsWithDigit(s) == LET cs == s IN cs # <<>> /\ cs[Len(cs)] \in 48..57

\* the textbook Luhn formula over unbounded integers: the digit at index i
\* from the right contributes 2d (less 9 above 9) when i is even, d when odd
Contribution(i, d) ==
    IF i % 2 = 0 THEN (IF 2 * d > 9 THEN 2 * d - 9 ELSE 2 * d) ELSE d

RECURSIVE LuhnTotal(_, _)
LuhnTotal(ds, i) ==
    IF i >= Len(ds) THEN 0
    ELSE Contribution(i, ds[Len(ds) - i]) + LuhnTotal(ds, i + 1)

LuhnCheck(ds) == (10 - (LuhnTotal(ds, 0) % 10)) % 10

Payload7992739871 == Digits(<<7, 9, 9, 2, 7, 3, 9, 8, 7, 1>>)
Protected79927398713 == Digits(<<7, 9, 9, 2, 7, 3, 9, 8, 7, 1, 3>>)
Payload4417123456789112 == Digits(<<4, 4, 1, 7, 1, 2, 3, 4, 5, 6, 7, 8, 9, 1, 1, 2>>)

----------------------------------------------------------------------------
(* Properties *)

\* C1: round trip.  On the default (lossy) instance, for every string of
\* the characters '0'..'9', the empty string included, generate succeeds and
\* validate of what it returned is Ok(true).
C1_RoundTrip ==
    (op = "generate" /\ algo.lossy /\ IsDigitString(text)) =>
        /\ IsOk(result)
        /\ validate(algo, result.val, overflow_checks) = Ok(TRUE)

C1_Witness ==
    /\ op = "generate" /\ algo.lossy
    /\ text = Digits(<<1, 2, 3>>)
    /\ IsOk(result)
    /\ validate(algo, result.val, overflow_checks) = Ok(TRUE)

\* C2: for every digit string compute returns the character of the textbook
\* Luhn check digit (10 - total mod 10) mod 10, where the total is reduced
\* once at the end; and no u8 operation of the fold, of luhn_double or of the
\* final subtraction leaves 0..255.
C2_ReferenceFormula ==
    (op = "compute" /\ IsDigitString(text)) =>
        LET ds == DigitValues(text)
            sum == luhn_fold(ds, 0, Zero)
        IN  /\ result = Ok(<<48 + LuhnCheck(ds)>>)
            /\ ~sum.ovf
            /\ ~check_value(sum.val).ovf
            /\ \A i \in 1..Len(ds) : ~luhn_double(ds[i]).ovf

C2_Witness ==
    /\ op = "compute"
    /\ text = Digits(<<9, 9, 9>>)
    /\ result = Ok(<<48 + 3>>)

\* C3: validate splits off the last character.  The empty string gives
\* Err(InvalidProtectedString(protected)); otherwise the result is what
\* compute of the head gives: its error, or Ok(whether it equals the tail).
\* validate("5") is Ok(false), compute("") being "0".
C3_Validate ==
    (op = "validate") =>
        LET cs == text
        IN  /\ cs = <<>> => result = Err("InvalidProtectedString", text)
            /\ cs # <<>> =>
                LET head == SubSeq(cs, 1, Len(cs) - 1)
                    tail == <<cs[Len(cs)]>>
                    computed == compute(algo, head, overflow_checks)
                IN  IF IsOk(computed)
                    THEN result = Ok(computed.val = tail)
                    ELSE IsErr(computed) /\ result = computed
            /\ text = <<53>> =>
                /\ result = Ok(FALSE)
                /\ compute(algo, <<>>, overflow_checks) = Ok(<<48>>)

C3_Witness ==
    /\ op = "validate" /\ ~algo.lossy
    /\ text = <<45, 49>>
    /\ result = Err("UnknownCharInString", <<45>>)

\* C4: generate returns the payload, byte for byte, followed by exactly the
\* one character compute returns for it, and fails exactly as compute fails.
\* generate("7992739871") is "79927398713".
C4_Generate ==
    (op = "generate") =>
        LET computed == compute(algo, text, overflow_checks)
        IN  /\ IsOk(computed) =>
                /\ IsOk(result)
                /\ Len(result.val) = Len(text) + Len(computed.val)
                /\ SubSeq(result.val, 1, Len(text)) = text
                /\ SubSeq(result.val, Len(text) + 1, Len(result.val)) = computed.val
                /\ Len(computed.val) = 1
            /\ ~IsOk(computed) => result = computed
            /\ (text = Payload7992739871) => result = Ok(Protected79927398713)

C4_Witness ==
    /\ op = "generate" /\ algo.lossy
    /\ text = <<49, 45, 233>>
    /\ result = Ok(<<49, 45, 233, 56>>)

\* C5: compute, generate and validate never panic: each returns Ok or one of
\* the two reportable errors.  On a lossy instance compute and generate
\* return Ok and UnknownCharInString is never returned.  The value handed to
\* convert_nums is one of 0..9, a key of the map.
C5_NoPanic ==
    (op \in {"compute", "generate", "validate"}) =>
        /\ result.kind \in {"Ok", "Err"}
        /\ IsErr(result) =>
              result.err \in {"InvalidProtectedString", "UnknownCharInString"}
        /\ algo.lossy =>
              /\ op \in {"compute", "generate"} => IsOk(result)
              /\ IsErr(result) => result.err # "UnknownCharInString"
        /\ LET payload == IF op = "validate"
                          THEN SubSeq(text, 1, Len(text) - 1)
                          ELSE text
               ns == convert_chars_lossy(algo.charmap, payload)
               value == check_value(luhn_fold(ns, 0, Zero).val).val
           IN  value \in 0..9 /\ value \in DOMAIN algo.charmap.n_to_c

C5_Witness ==
    /\ op = "compute" /\ algo.lossy /\ overflow_checks
    /\ text = <<233, 45>>
    /\ result = Ok(<<48>>)

\* C6: single-digit errors are detected.  If validate of a digit string is
\* Ok(true), then replacing any one of its digits, check digit or payload,
\* by another digit gives a string whose validate is Ok(false); of the ten
\* digits in the last place exactly one validates.
C6_SingleDigitError ==
    (op = "validate" /\ IsDigitString(text) /\ result = Ok(TRUE)) =>
        /\ \A i \in 1..Len(text), d \in 48..57 :
              d # text[i] =>
                  validate(algo, [text EXCEPT ![i] = d], overflow_checks) = Ok(FALSE)
        /\ Cardinality({d \in 48..57 :
              validate(algo, [text EXCEPT ![Len(text)] = d], overflow_checks) = Ok(TRUE)}) = 1

C6_Witness ==
    /\ op = "validate"
    /\ text = Protected79927398713
    /\ result = Ok(TRUE)

\* C7 as the specification states it: compute("4417123456789112") is "3" on the default instance.
C7_Claimed ==
    (op = "compute" /\ algo.lossy /\ text = Payload4417123456789112) =>
        result = Ok(<<51>>)

\* C7: compute("4417123456789112") is "8" on the default instance.
C7_Fixture ==
    (op = "compute" /\ algo.lossy /\ text = Payload4417123456789112) =>
        result = Ok(<<56>>)

C7_Witness ==
    /\ op = "compute" /\ algo.lossy
    /\ text = Payload4417123456789112
    /\ IsOk(result)

\* C8 as the specification states it: split_protected_tail_n(text, n), for every n >= 0, fails
\* with InvalidProtectedString(text) iff text has fewer than n characters and
\* otherwise returns the text before its last n characters and those last n
\* characters.
C8_SplitTail ==
    (op = "split_protected_tail_n") =>
        LET cs == text
        IN  IF Len(cs) < count
            THEN result = Err("InvalidProtectedString", text)
            ELSE result = Ok(<<SubSeq(cs, 1, Len(cs) - count),
                               SubSeq(cs, Len(cs) - count + 1, Len(cs))>>)

\* the same for n >= 1, the counts for which n - 1 does not overflow
C8_SplitTailPositive == (count >= 1) => C8_SplitTail

\* C9 as the specification states it: on a lossy instance compute and validate give for s what
\* they give for s with the characters outside the charset removed.
C9_Claimed ==
    (algo.lossy /\ op \in {"compute", "validate"}) =>
        result = IF op = "compute"
                 THEN compute(algo, Clean(text), overflow_checks)
                 ELSE validate(algo, Clean(text), overflow_checks)

\* C9: on a lossy instance compute gives for s what it gives for s with the
\* characters outside the charset removed; validate does so when s is empty
\* or ends with a charset character, and is Ok(false) when s ends with a
\* character outside the charset.
C9_LossyDrop ==
    algo.lossy =>
        /\ op = "compute" => result = compute(algo, Clean(text), overflow_checks)
        /\ (op = "validate" /\ (text = <<>> \/ EndsWithDigit(text))) =>
              result = validate(algo, Clean(text), overflow_checks)
        /\ (op = "validate" /\ text # <<>> /\ ~EndsWithDigit(text)) =>
              result = Ok(FALSE)

C9_Witness ==
    /\ op = "validate" /\ algo.lossy
    /\ text = <<49, 45, 56>>
    /\ result = Ok(TRUE)

----------------------------------------------------------------------------
(* Properties of CharMap *)

\* some entry of the sequence occurs twice
HasDuplicate(seq) == \E i, j \in 1..Len(seq) : i < j /\ seq[i] = seq[j]

\* the two maps of m are inverse bijections between the characters cs and
\* the values vs, pairing cs[i] with vs[i]
InverseMaps(m, cs, vs) ==
    /\ DOMAIN m.c_to_n = {cs[i] : i \in 1..Len(cs)}
    /\ DOMAIN m.n_to_c = {vs[i] : i \in 1..Len(vs)}
    /\ MapLen(m.c_to_n) = Len(cs)
    /\ MapLen(m.n_to_c) = Len(cs)
    /\ \A i \in 1..Len(cs) : m.c_to_n[cs[i]] = vs[i] /\ m.n_to_c[vs[i]] = cs[i]
    /\ \A c \in DOMAIN m.c_to_n : m.n_to_c[m.c_to_n[c]] = c
    /\ \A n \in DOMAIN m.n_to_c : m.c_to_n[m.n_to_c[n]] = n

\* encode([decode_strict(c)]) == c for every character of the map
RoundTripsEverySymbol(m) ==
    \A c \in DOMAIN m.c_to_n :
        LET decoded == convert_chars(m, <<c>>)
        IN  IsOk(decoded) /\ convert_nums(m, decoded.val) = Ok(<<c>>)

\* with_numset panics iff the lengths differ or either sequence has a
\* duplicate, and a map it returns is the bijection of its arguments
WithNumsetContract ==
    (op = "with_numset") =>
        LET cs == text
        IN  /\ IsPanic(result) <=>
                (Len(cs) # Len(nums) \/ HasDuplicate(cs) \/ HasDuplicate(nums))
            /\ ~IsPanic(result) =>
                IsOk(result) /\ cm = result.val /\ InverseMaps(cm, cs, nums)

\* a map from returns is the bijection of the characters and 0, 1, 2, ...
FromBuilds ==
    (op = "from" /\ ~IsPanic(result)) =>
        LET cs == text
        IN  IsOk(result) /\ cm = result.val
            /\ InverseMaps(cm, cs, [i \in 1..Len(cs) |-> i - 1])

\* decode and encode leave the map as it is
MapUntouched ==
    (op' \in {"convert_chars", "convert_chars_lossy", "convert_nums"}) => cm' = cm

\* C10 as the specification states it: with_numset panics iff the lengths differ or either
\* sequence has a duplicate; from panics iff the charset has a duplicate; a
\* built map is a bijection of the size of the charset, every symbol of it
\* survives decode then encode, and decode and encode never change the map.
C10_Claimed ==
    /\ WithNumsetContract
    /\ FromBuilds
    /\ (op = "from") => (IsPanic(result) <=> HasDuplicate(text))
    /\ RoundTripsEverySymbol(cm)

\* C10: the same, except that from (for the 8-bit map) panics iff the
\* charset has a duplicate, or more than 256 characters, or exactly 256 in a
\* build with overflow checks.
C10_CharMap ==
    /\ [](/\ WithNumsetContract
          /\ FromBuilds
          /\ (op = "from") =>
                LET cs == text
                IN  IsPanic(result) <=>
                        \/ HasDuplicate(cs)
                        \/ Len(cs) > U8Modulus
                        \/ Len(cs) = U8Modulus /\ overflow_checks
          /\ RoundTripsEverySymbol(cm))
    /\ [][MapUntouched]_vars

C10_Witness ==
    /\ op = "convert_nums"
    /\ MapLen(cm.c_to_n) = U8Modulus
    /\ ~overflow_checks
    /\ nums = <<7, 0>>
    /\ result = Ok(<<39, 32>>)

============================================================================
